---- MODULE Spec2Model ----
(***************************************************************************)
(* CarButler (src/main.py): the vehicle store, the maintenance-due         *)
(* evaluator and the menu handlers (add_vehicle, update_mileage,           *)
(* check_maintenance, schedule_service, view_history) as a state machine.  *)
(*                                                                         *)
(* Units: mileage in miles (integers, as in the source); battery voltage   *)
(* in hundredths of a volt (the source rounds to 2 decimals: 12.6 V is     *)
(* 1260); a date is a day number, day 0 being a Monday, so that            *)
(* datetime.weekday() is the day number modulo 7 (0 = Monday .. 6 =        *)
(* Sunday).  The identity fields of a vehicle (make, model, year, vin) are *)
(* read only to print it and are left out of the record.                   *)
(***************************************************************************)
EXTENDS Integers, Sequences, FiniteSets

(***************************************************************************)
(* Bounds of the model.                                                    *)
(***************************************************************************)
\* the store holds at most this many vehicles
MaxVehicles == 1
\* at most this many history entries are written, over all vehicles
MaxHistory == 2
\* the day on which the session runs (Spec, SpecEval)
FirstDay == 0
\* the days a session of SpecDates may run on: 0 .. MaxDay
MaxDay == 6

(***************************************************************************)
(* Inputs, drawn from the ranges the source allows.                        *)
(***************************************************************************)
\* add_vehicle: any mileage >= 0
AddMileages == {50000}
\* Vehicle.__init__: random.randint(1000, 4000), (2000, 6000), (10000, 20000)
OilBacklogs == {1000, 4000}
TireBacklogs == {6000}
AirBacklogs == {20000}
\* update_mileage, manual entry: any integer (accepted when >= the mileage)
ManualMileages == {53000}
\* MockOBD2.get_mileage: random.randint(1000, 100000)
OBD2Mileages == {1000, 100000}
\* MockOBD2.get_battery_voltage: round(random.uniform(11.5, 14.5), 2)
OBD2Voltages == {1150}
\* schedule_service: the number typed at "Select date"
DateChoices == {1}
\* schedule_service: no email asked for, send_email returned True, or False
EmailOutcomes == {"not_requested", "sent", "failed"}

\* Vehicle.__init__: the default battery voltage, 12.6 V
DefaultBattery == 1260
\* update_mileage: the low-battery warning threshold, 12.0 V
LowBattery == 1200

VARIABLES
    vehicles,          \* CarButler.vehicles: the sequence of vehicle records
    today,             \* datetime.now(), as a day number
    calendar,          \* the number of create_event calls made on the calendar
    \* the locals of the handler that ran last, and what it printed last:
    selected,          \* what select_vehicle returned (0: None, or not called)
    due_items,         \* what check_maintenance_due returned (<< >> also when not called)
    selected_service,  \* schedule_service: the service selected ("": none)
    selected_date,     \* schedule_service: the date selected (-1: none)
    output             \* the last message printed, with the handler printing it

vars == <<vehicles, today, calendar, selected, due_items,
          selected_service, selected_date, output>>

(***************************************************************************)
(* Vehicle                                                                 *)
(***************************************************************************)
Vehicle(mileage, oil_backlog, tire_backlog, air_backlog) ==
    [ mileage             |-> mileage,
      battery_voltage     |-> DefaultBattery,
      maintenance_history |-> << >>,
      last_oil_change     |-> mileage - oil_backlog,
      last_tire_rotation  |-> mileage - tire_backlog,
      last_air_filter     |-> mileage - air_backlog ]

(***************************************************************************)
(* MaintenanceSchedule                                                     *)
(***************************************************************************)
INTERVALS ==
    [ oil_change    |-> <<5000, 7500>>,
      tire_rotation |-> <<5000, 8000>>,
      air_filter    |-> <<15000, 30000>> ]

\* The plausible slip of reading the minimum bound, INTERVALS[...][0].
check_maintenance_due_min(vehicle) ==
    LET miles_until_oil  == INTERVALS.oil_change[1] - (vehicle.mileage - vehicle.last_oil_change)
        miles_until_tire == INTERVALS.tire_rotation[1] - (vehicle.mileage - vehicle.last_tire_rotation)
        miles_until_air  == INTERVALS.air_filter[1] - (vehicle.mileage - vehicle.last_air_filter)
    IN  (IF miles_until_oil <= 0 THEN << <<"Oil Change", 0, "OVERDUE">> >>
         ELSE IF miles_until_oil <= 500 THEN << <<"Oil Change", miles_until_oil, "DUE SOON">> >>
         ELSE IF miles_until_oil <= 1000 THEN << <<"Oil Change", miles_until_oil, "UPCOMING">> >>
         ELSE << >>)
        \o
        (IF miles_until_tire <= 0 THEN << <<"Tire Rotation", 0, "OVERDUE">> >>
         ELSE IF miles_until_tire <= 500 THEN << <<"Tire Rotation", miles_until_tire, "DUE SOON">> >>
         ELSE IF miles_until_tire <= 1000 THEN << <<"Tire Rotation", miles_until_tire, "UPCOMING">> >>
         ELSE << >>)
        \o
        (IF miles_until_air <= 0 THEN << <<"Air Filter", 0, "OVERDUE">> >>
         ELSE IF miles_until_air <= 2000 THEN << <<"Air Filter", miles_until_air, "UPCOMING">> >>
         ELSE << >>)

\* The plausible slip of writing < for <= at the DUE SOON and UPCOMING thresholds.
check_maintenance_due_strict(vehicle) ==
    LET miles_until_oil  == INTERVALS.oil_change[2] - (vehicle.mileage - vehicle.last_oil_change)
        miles_until_tire == INTERVALS.tire_rotation[2] - (vehicle.mileage - vehicle.last_tire_rotation)
        miles_until_air  == INTERVALS.air_filter[2] - (vehicle.mileage - vehicle.last_air_filter)
    IN  (IF miles_until_oil <= 0 THEN << <<"Oil Change", 0, "OVERDUE">> >>
         ELSE IF miles_until_oil < 500 THEN << <<"Oil Change", miles_until_oil, "DUE SOON">> >>
         ELSE IF miles_until_oil < 1000 THEN << <<"Oil Change", miles_until_oil, "UPCOMING">> >>
         ELSE << >>)
        \o
        (IF miles_until_tire <= 0 THEN << <<"Tire Rotation", 0, "OVERDUE">> >>
         ELSE IF miles_until_tire < 500 THEN << <<"Tire Rotation", miles_until_tire, "DUE SOON">> >>
         ELSE IF miles_until_tire < 1000 THEN << <<"Tire Rotation", miles_until_tire, "UPCOMING">> >>
         ELSE << >>)
        \o
        (IF miles_until_air <= 0 THEN << <<"Air Filter", 0, "OVERDUE">> >>
         ELSE IF miles_until_air < 2000 THEN << <<"Air Filter", miles_until_air, "UPCOMING">> >>
         ELSE << >>)

\* check_maintenance_due: the list of (service_name, miles_until_due, status),
\* in the order oil change, tire rotation, air filter.  INTERVALS[...][1] of the
\* source is the second component, [2] here (TLA+ sequences start at 1).
check_maintenance_due(vehicle) ==
    LET oil_interval     == INTERVALS.oil_change[2]
        miles_since_oil  == vehicle.mileage - vehicle.last_oil_change
        miles_until_oil  == oil_interval - miles_since_oil
        tire_interval    == INTERVALS.tire_rotation[2]
        miles_since_tire == vehicle.mileage - vehicle.last_tire_rotation
        miles_until_tire == tire_interval - miles_since_tire
        air_interval     == INTERVALS.air_filter[2]
        miles_since_air  == vehicle.mileage - vehicle.last_air_filter
        miles_until_air  == air_interval - miles_since_air
    IN  (IF miles_until_oil <= 0 THEN << <<"Oil Change", 0, "OVERDUE">> >>
         ELSE IF miles_until_oil <= 500 THEN << <<"Oil Change", miles_until_oil, "DUE SOON">> >>
         ELSE IF miles_until_oil <= 1000 THEN << <<"Oil Change", miles_until_oil, "UPCOMING">> >>
         ELSE << >>)
        \o
        (IF miles_until_tire <= 0 THEN << <<"Tire Rotation", 0, "OVERDUE">> >>
         ELSE IF miles_until_tire <= 500 THEN << <<"Tire Rotation", miles_until_tire, "DUE SOON">> >>
         ELSE IF miles_until_tire <= 1000 THEN << <<"Tire Rotation", miles_until_tire, "UPCOMING">> >>
         ELSE << >>)
        \o
        (IF miles_until_air <= 0 THEN << <<"Air Filter", 0, "OVERDUE">> >>
         ELSE IF miles_until_air <= 2000 THEN << <<"Air Filter", miles_until_air, "UPCOMING">> >>
         ELSE << >>)

(***************************************************************************)
(* schedule_service: the candidate dates                                   *)
(***************************************************************************)
weekday(date) == date % 7

\* The plausible slip of starting the window today: range(0, 7).
candidate_dates_from_today(now) ==
    SelectSeq([i \in 1..7 |-> now + (i - 1)], LAMBDA date : weekday(date) < 5)

\* for i in range(1, 8): date = now + i days; kept when date.weekday() < 5
candidate_dates(now) ==
    SelectSeq([i \in 1..7 |-> now + i], LAMBDA date : weekday(date) < 5)

(***************************************************************************)
(* Helpers over the store                                                  *)
(***************************************************************************)
RECURSIVE TotalHistory(_)
TotalHistory(vs) ==
    IF vs = << >> THEN 0
    ELSE Len(Head(vs).maintenance_history) + TotalHistory(Tail(vs))


\* select_vehicle: the numbers accepted at "Select vehicle number"
VehicleChoices == 1..Len(vehicles)

\* what a handler prints last, with the handler that printed it
Said(handler, message) == [handler |-> handler, message |-> message]

\* no service and no date selected: every handler but a completed schedule_service
NothingSelected ==
    /\ selected_service' = ""
    /\ selected_date' = -1

(***************************************************************************)
(* Init: CarButler.__init__ with no data/vehicles.json to load.            *)
(***************************************************************************)
Init ==
    /\ vehicles = << >>
    /\ today = FirstDay
    /\ calendar = 0
    /\ selected = 0
    /\ due_items = << >>
    /\ selected_service = ""
    /\ selected_date = -1
    /\ output = Said("main_menu", "menu")

(***************************************************************************)
(* select_vehicle with an empty store: "No vehicles found", returns None,  *)
(* and the handler that called it returns at once.                         *)
(***************************************************************************)
NoVehicle(handler) ==
    /\ vehicles = << >>
    /\ selected' = 0
    /\ due_items' = << >>
    /\ NothingSelected
    /\ output' = Said(handler, "no_vehicles")
    /\ UNCHANGED <<vehicles, today, calendar>>

(***************************************************************************)
(* add_vehicle: the prompts loop until the year and the mileage are valid, *)
(* then the vehicle is appended and the store saved.                       *)
(***************************************************************************)
AddVehicle ==
    /\ Len(vehicles) < MaxVehicles
    /\ \E mileage \in AddMileages, oil \in OilBacklogs,
          tire \in TireBacklogs, air \in AirBacklogs :
          /\ mileage >= 0
          /\ vehicles' = Append(vehicles, Vehicle(mileage, oil, tire, air))
    /\ selected' = 0
    /\ due_items' = << >>
    /\ NothingSelected
    /\ output' = Said("add_vehicle", "added")
    /\ UNCHANGED <<today, calendar>>

(***************************************************************************)
(* update_mileage                                                          *)
(***************************************************************************)
\* what update_mileage prints last: the low-battery warning, when it applies
MileageUpdated(vehicle) ==
    IF vehicle.battery_voltage < LowBattery
    THEN Said("update_mileage", "battery_low")
    ELSE Said("update_mileage", "mileage_updated")

\* use_obd2: both readings are taken, and stored when the user accepts them
UpdateMileageOBD2(i) ==
    /\ i \in VehicleChoices
    /\ selected' = i
    /\ \E new_mileage \in OBD2Mileages, battery \in OBD2Voltages, confirm \in BOOLEAN :
          IF confirm
          THEN /\ vehicles' = [vehicles EXCEPT ![i].mileage = new_mileage,
                                               ![i].battery_voltage = battery]
               /\ output' = MileageUpdated(vehicles'[i])
          ELSE /\ vehicles' = vehicles
               /\ output' = Said("update_mileage", "obd2_declined")
    /\ due_items' = << >>
    /\ NothingSelected
    /\ UNCHANGED <<today, calendar>>

\* manual entry: re-prompted until new_mileage >= vehicle.mileage
UpdateMileageManual(i) ==
    /\ i \in VehicleChoices
    /\ selected' = i
    /\ \E new_mileage \in ManualMileages :
          /\ new_mileage >= vehicles[i].mileage
          /\ vehicles' = [vehicles EXCEPT ![i].mileage = new_mileage]
          /\ output' = MileageUpdated(vehicles'[i])
    /\ due_items' = << >>
    /\ NothingSelected
    /\ UNCHANGED <<today, calendar>>

UpdateMileage ==
    \/ NoVehicle("update_mileage")
    \/ \E i \in VehicleChoices : UpdateMileageOBD2(i)
    \/ \E i \in VehicleChoices : UpdateMileageManual(i)

(***************************************************************************)
(* check_maintenance                                                       *)
(***************************************************************************)
\* the battery status line, which check_maintenance prints last
BatteryStatus(vehicle) ==
    IF vehicle.battery_voltage >= 1240 THEN "battery_good"
    ELSE IF vehicle.battery_voltage >= 1200 THEN "battery_fair"
    ELSE "battery_poor"

\* The plausible slip of an evaluation that marks the oil change as handled.
CheckMaintenanceMarking(i) ==
    /\ i \in VehicleChoices
    /\ selected' = i
    /\ due_items' = check_maintenance_due(vehicles[i])
    /\ vehicles' = [vehicles EXCEPT ![i].last_oil_change = vehicles[i].mileage]
    /\ NothingSelected
    /\ output' = Said("check_maintenance", BatteryStatus(vehicles[i]))
    /\ UNCHANGED <<today, calendar>>

CheckMaintenanceOf(i) ==
    /\ i \in VehicleChoices
    /\ selected' = i
    /\ due_items' = check_maintenance_due(vehicles[i])
    /\ NothingSelected
    /\ output' = Said("check_maintenance", BatteryStatus(vehicles[i]))
    /\ UNCHANGED <<vehicles, today, calendar>>

CheckMaintenance ==
    \/ NoVehicle("check_maintenance")
    \/ \E i \in VehicleChoices : CheckMaintenanceOf(i)

(***************************************************************************)
(* schedule_service                                                        *)
(***************************************************************************)
\* the dict appended to maintenance_history; scheduled_date is the date whose
\* isoformat() the source stores
history_entry(vehicle, service, date) ==
    [ service        |-> service,
      scheduled_date |-> date,
      mileage        |-> vehicle.mileage,
      status         |-> "scheduled" ]

\* The plausible slip of keeping only the latest entry.
record_service_overwriting(vehicle, service, date) ==
    [vehicle EXCEPT !.maintenance_history = << history_entry(vehicle, service, date) >>]

\* The plausible slip (or feature) of taking the service as done when scheduled.
record_service_resetting(vehicle, service, date) ==
    [vehicle EXCEPT
        !.maintenance_history = Append(@, history_entry(vehicle, service, date)),
        !.last_oil_change = IF service = "Oil Change" THEN vehicle.mileage ELSE @,
        !.last_tire_rotation = IF service = "Tire Rotation" THEN vehicle.mileage ELSE @,
        !.last_air_filter = IF service = "Air Filter" THEN vehicle.mileage ELSE @]

\* vehicle.maintenance_history.append({...})
record_service(vehicle, service, date) ==
    [vehicle EXCEPT !.maintenance_history = Append(@, history_entry(vehicle, service, date))]

\* what schedule_service prints last, by what became of the email
EmailMessage(email) ==
    CASE email = "not_requested" -> "event_created"
      [] email = "sent"          -> "email_sent"
      [] email = "failed"        -> "email_failed"

\* nothing due: "No maintenance currently due!", and the handler returns
ScheduleNothingDue(i) ==
    /\ i \in VehicleChoices
    /\ check_maintenance_due(vehicles[i]) = << >>
    /\ selected' = i
    /\ due_items' = << >>
    /\ NothingSelected
    /\ output' = Said("schedule_service", "no_maintenance_due")
    /\ UNCHANGED <<vehicles, today, calendar>>

\* The plausible slip of recording the service only once the email went out.
ScheduleSelectedUnlessEmailFails(i, choice, date_choice, email) ==
    LET vehicle == vehicles[i]
        due     == check_maintenance_due(vehicle)
        dates   == candidate_dates(today)
    IN  /\ i \in VehicleChoices
        /\ due # << >>
        /\ choice \in 1..Len(due)
        /\ date_choice \in 1..Len(dates)
        /\ TotalHistory(vehicles) < MaxHistory
        /\ selected' = i
        /\ due_items' = due
        /\ selected_service' = due[choice][1]
        /\ selected_date' = dates[date_choice]
        /\ calendar' = calendar + 1
        /\ vehicles' = IF email = "failed" THEN vehicles
                       ELSE [vehicles EXCEPT ![i] = record_service(vehicle, due[choice][1], dates[date_choice])]
        /\ output' = Said("schedule_service", EmailMessage(email))
        /\ UNCHANGED today

\* The plausible slip of offering every tracked service, due or not.
ScheduleSelectedAnyService(i, choice, date_choice, email) ==
    LET vehicle == vehicles[i]
        due     == check_maintenance_due(vehicle)
        offered == <<"Oil Change", "Tire Rotation", "Air Filter">>
        dates   == candidate_dates(today)
    IN  /\ i \in VehicleChoices
        /\ due # << >>
        /\ choice \in 1..Len(offered)
        /\ date_choice \in 1..Len(dates)
        /\ TotalHistory(vehicles) < MaxHistory
        /\ selected' = i
        /\ due_items' = due
        /\ selected_service' = offered[choice]
        /\ selected_date' = dates[date_choice]
        /\ calendar' = calendar + 1
        /\ vehicles' = [vehicles EXCEPT ![i] = record_service(vehicle, offered[choice], dates[date_choice])]
        /\ output' = Said("schedule_service", EmailMessage(email))
        /\ UNCHANGED today

\* a service and a date are selected (the prompts loop until both numbers are
\* valid), the calendar event is created, the email is sent when asked for, and
\* the history entry is appended and saved
ScheduleSelected(i, choice, date_choice, email) ==
    LET vehicle == vehicles[i]
        due     == check_maintenance_due(vehicle)
        dates   == candidate_dates(today)
    IN  /\ i \in VehicleChoices
        /\ due # << >>
        /\ choice \in 1..Len(due)
        /\ date_choice \in 1..Len(dates)
        /\ TotalHistory(vehicles) < MaxHistory
        /\ selected' = i
        /\ due_items' = due
        /\ selected_service' = due[choice][1]
        /\ selected_date' = dates[date_choice]
        /\ calendar' = calendar + 1
        /\ vehicles' = [vehicles EXCEPT ![i] = record_service(vehicle, selected_service', selected_date')]
        /\ output' = Said("schedule_service", EmailMessage(email))
        /\ UNCHANGED today

\* the numbers typed at "Select service" and "Select date", and the email's fate
ScheduleServiceOf(i, date_choices) ==
    \E choice \in 1..3, date_choice \in date_choices, email \in EmailOutcomes :
        ScheduleSelected(i, choice, date_choice, email)

ScheduleService ==
    \/ NoVehicle("schedule_service")
    \/ \E i \in VehicleChoices : ScheduleNothingDue(i)
    \/ \E i \in VehicleChoices : ScheduleServiceOf(i, DateChoices)

(***************************************************************************)
(* view_history                                                            *)
(***************************************************************************)
ViewHistoryOf(i) ==
    /\ i \in VehicleChoices
    /\ selected' = i
    /\ due_items' = << >>
    /\ NothingSelected
    /\ output' = Said("view_history",
                      IF vehicles[i].maintenance_history = << >>
                      THEN "no_history" ELSE "history_shown")
    /\ UNCHANGED <<vehicles, today, calendar>>

ViewHistory ==
    \/ NoVehicle("view_history")
    \/ \E i \in VehicleChoices : ViewHistoryOf(i)

(***************************************************************************)
(* main_menu: one handler per choice, each run to completion.              *)
(***************************************************************************)
Next ==
    \/ AddVehicle
    \/ UpdateMileage
    \/ CheckMaintenance
    \/ ScheduleService
    \/ ViewHistory

Spec == Init /\ [][Next]_vars

(***************************************************************************)
(* SpecEval: the evaluator on vehicles whose miles since each service sit  *)
(* on and around every threshold.  Each is a record the program reaches:   *)
(* a vehicle added at some mileage with some backlog and driven on.        *)
(***************************************************************************)
OilSince == {3000, 6499, 6500, 6999, 7000, 7499, 7500, 7501, 9000}
TireSince == {4000, 6999, 7000, 7499, 7500, 7999, 8000, 8001}
AirSince == {15000, 27999, 28000, 29999, 30000, 30001}

EvalVehicles ==
    { [ mileage             |-> 50000,
        battery_voltage     |-> DefaultBattery,
        maintenance_history |-> << >>,
        last_oil_change     |-> 50000 - oil,
        last_tire_rotation  |-> 50000 - tire,
        last_air_filter     |-> 50000 - air ] :
      oil \in OilSince, tire \in TireSince, air \in AirSince }

InitEval ==
    /\ vehicles \in { <<v>> : v \in EvalVehicles }
    /\ today = FirstDay
    /\ calendar = 0
    /\ selected = 0
    /\ due_items = << >>
    /\ selected_service = ""
    /\ selected_date = -1
    /\ output = Said("main_menu", "menu")

NextEval ==
    \/ \E i \in VehicleChoices : CheckMaintenanceOf(i)
    \/ \E i \in VehicleChoices : ViewHistoryOf(i)

SpecEval == InitEval /\ [][NextEval]_vars

(***************************************************************************)
(* SpecDates: schedule_service on every day of the week, for a vehicle     *)
(* added at 50,000 miles and driven (manual entry) to 100,000, where all   *)
(* three services are overdue.                                             *)
(***************************************************************************)
DatesVehicles ==
    { [Vehicle(50000, oil, tire, air) EXCEPT !.mileage = 100000] :
      oil \in OilBacklogs, tire \in TireBacklogs, air \in AirBacklogs }

InitDates ==
    /\ vehicles \in { <<v>> : v \in DatesVehicles }
    /\ today \in 0..MaxDay
    /\ calendar = 0
    /\ selected = 0
    /\ due_items = << >>
    /\ selected_service = ""
    /\ selected_date = -1
    /\ output = Said("main_menu", "menu")

NextDates == \E i \in VehicleChoices : ScheduleServiceOf(i, 1..5)

SpecDates == InitDates /\ [][NextDates]_vars


(***************************************************************************)
(* Properties                                                              *)
(***************************************************************************)
\* the handler that ran last was a schedule_service that selected a service
\* and a date, and so ran to its end
ScheduleCompleted ==
    /\ output.handler = "schedule_service"
    /\ selected_service # ""

\* the service names in a list returned by check_maintenance_due
Names(items) == { items[k][1] : k \in 1..Len(items) }

\* the last-service reading and the maximum interval of a service, by its name
LastService(vehicle, name) ==
    CASE name = "Oil Change"    -> vehicle.last_oil_change
      [] name = "Tire Rotation" -> vehicle.last_tire_rotation
      [] name = "Air Filter"    -> vehicle.last_air_filter

MaxInterval(name) ==
    CASE name = "Oil Change"    -> 7500
      [] name = "Tire Rotation" -> 8000
      [] name = "Air Filter"    -> 30000

Remaining(vehicle, name) ==
    MaxInterval(name) - (vehicle.mileage - LastService(vehicle, name))

\* the urgency a list reports for a service: "omitted" when it has no item
Reported(items, name) ==
    IF name \in Names(items)
    THEN (CHOOSE k \in 1..Len(items) : items[k][1] = name) 
    ELSE 0

ReportedStatus(items, name) ==
    IF Reported(items, name) = 0 THEN "omitted" ELSE items[Reported(items, name)][3]

\* C1: over any sequence of update_mileage operations (manual entry or accepted
\* OBD2 reading) the mileage of a vehicle never decreases: after every
\* update_mileage it is at least what it was before.
C1_MileageNeverDecreases ==
    [][ output'.handler = "update_mileage" =>
          \A i \in 1..Len(vehicles) : vehicles'[i].mileage >= vehicles[i].mileage ]_vars

\* C2: in every state reached by add_vehicle, update_mileage and
\* schedule_service, the mileage of every vehicle is at least each of its
\* last_oil_change, last_tire_rotation and last_air_filter.
C2_MileageCoversLastServices ==
    \A i \in 1..Len(vehicles) :
        /\ vehicles[i].mileage >= vehicles[i].last_oil_change
        /\ vehicles[i].mileage >= vehicles[i].last_tire_rotation
        /\ vehicles[i].mileage >= vehicles[i].last_air_filter

\* C3: the history is append-only.  The histories hold as many entries as
\* schedule_service calls were completed; a completed call adds exactly one
\* entry to the selected vehicle's history, after the entries it had, which stay
\* as they were and where they were; every other step (update_mileage,
\* check_maintenance, view_history, add_vehicle, a schedule_service that returns
\* early) leaves every history as it was.
C3_HistoryAppendOnly ==
    /\ [](TotalHistory(vehicles) = calendar)
    /\ [][ \A i \in 1..Len(vehicles) :
             LET before == vehicles[i].maintenance_history
                 after  == vehicles'[i].maintenance_history
             IN  IF ScheduleCompleted' /\ selected' = i
                 THEN /\ Len(after) = Len(before) + 1
                      /\ SubSeq(after, 1, Len(before)) = before
                 ELSE after = before ]_vars

\* C3's case: a second entry was just appended to a history
C3_Witness ==
    /\ ScheduleCompleted
    /\ Len(vehicles[selected].maintenance_history) = 2

\* C4: a schedule_service that selected a service and a date appends exactly
\* one entry, with status "scheduled", the selected service, the selected date
\* and the vehicle's mileage at call time, whether no email was asked for, the
\* email was sent, or send_email returned failure.
C4_EntryWhateverTheEmail ==
    [][ ScheduleCompleted' =>
          LET before == vehicles[selected'].maintenance_history
              after  == vehicles'[selected'].maintenance_history
          IN  /\ output'.message \in {"event_created", "email_sent", "email_failed"}
              /\ Len(after) = Len(before) + 1
              /\ SubSeq(after, 1, Len(before)) = before
              /\ after[Len(after)] =
                   [ service        |-> selected_service',
                     scheduled_date |-> selected_date',
                     mileage        |-> vehicles[selected'].mileage,
                     status         |-> "scheduled" ] ]_vars

\* C4's case: send_email returned failure and the entry is there
C4_Witness ==
    /\ ScheduleCompleted
    /\ output.message = "email_failed"
    /\ LET history == vehicles[selected].maintenance_history
       IN  /\ history # << >>
           /\ history[Len(history)].status = "scheduled"
           /\ history[Len(history)].service = selected_service
           /\ history[Len(history)].mileage = vehicles[selected].mileage

\* the urgency the tables of C5 give for a number of miles remaining
UrgencyOilTire(remaining) ==
    CASE remaining <= 0                       -> "OVERDUE"
      [] 0 < remaining /\ remaining <= 500    -> "DUE SOON"
      [] 500 < remaining /\ remaining <= 1000 -> "UPCOMING"
      [] OTHER                                -> "omitted"

UrgencyAir(remaining) ==
    CASE remaining <= 0                       -> "OVERDUE"
      [] 0 < remaining /\ remaining <= 2000   -> "UPCOMING"
      [] OTHER                                -> "omitted"

\* C5: check_maintenance_due classifies each service by remaining =
\* max_interval - (mileage - last_service), with 7500, 8000 and 30000 miles:
\* oil change and tire rotation OVERDUE at remaining <= 0, DUE SOON in (0, 500],
\* UPCOMING in (500, 1000], omitted beyond; air filter OVERDUE at remaining <= 0,
\* UPCOMING in (0, 2000], omitted beyond.  So oil change is OVERDUE from 7500
\* miles since the last one and DUE SOON from 7000 to 7499.
C5_Classification ==
    output.handler = "check_maintenance" =>
        LET vehicle   == vehicles[selected]
            since_oil == vehicle.mileage - vehicle.last_oil_change
        IN  /\ ReportedStatus(due_items, "Oil Change")
                 = UrgencyOilTire(Remaining(vehicle, "Oil Change"))
            /\ ReportedStatus(due_items, "Tire Rotation")
                 = UrgencyOilTire(Remaining(vehicle, "Tire Rotation"))
            /\ ReportedStatus(due_items, "Air Filter")
                 = UrgencyAir(Remaining(vehicle, "Air Filter"))
            /\ Names(due_items) \subseteq {"Oil Change", "Tire Rotation", "Air Filter"}
            /\ Cardinality(Names(due_items)) = Len(due_items)
            /\ since_oil >= 7500 => ReportedStatus(due_items, "Oil Change") = "OVERDUE"
            /\ (7000 <= since_oil /\ since_oil < 7500)
                 => ReportedStatus(due_items, "Oil Change") = "DUE SOON"

\* C5's case: an evaluation on the thresholds: oil change with exactly 500
\* miles remaining, tire rotation with exactly 1000, air filter with exactly 2000
C5_Witness ==
    /\ output.handler = "check_maintenance"
    /\ Remaining(vehicles[selected], "Oil Change") = 500
    /\ Remaining(vehicles[selected], "Tire Rotation") = 1000
    /\ Remaining(vehicles[selected], "Air Filter") = 2000
    /\ due_items = << <<"Oil Change", 500, "DUE SOON">>,
                      <<"Tire Rotation", 1000, "UPCOMING">>,
                      <<"Air Filter", 2000, "UPCOMING">> >>

\* C6 as claimed: the miles_remaining of every item returned by
\* check_maintenance_due, the OVERDUE ones included, is
\* max_interval - (mileage - last_service) of its service.
C6_MilesRemainingAsClaimed ==
    output.handler = "check_maintenance" =>
        \A k \in 1..Len(due_items) :
            due_items[k][2] = Remaining(vehicles[selected], due_items[k][1])

\* C6 as amended: the miles_remaining of every item returned by
\* check_maintenance_due is max_interval - (mileage - last_service) of its
\* service when the item is DUE SOON or UPCOMING, and 0 when it is OVERDUE.
C6_MilesRemainingClamped ==
    output.handler = "check_maintenance" =>
        \A k \in 1..Len(due_items) :
            due_items[k][2] =
                IF due_items[k][3] = "OVERDUE" THEN 0
                ELSE Remaining(vehicles[selected], due_items[k][1])

\* C6's case: an evaluation with an item past its interval and one short of it
C6_Witness ==
    /\ output.handler = "check_maintenance"
    /\ \E k \in 1..Len(due_items) :
          /\ due_items[k][3] = "OVERDUE"
          /\ Remaining(vehicles[selected], due_items[k][1]) < 0
          /\ due_items[k][2] = 0
    /\ \E k \in 1..Len(due_items) :
          /\ due_items[k][3] # "OVERDUE"
          /\ due_items[k][2] > 0

\* C7: a history entry is written only for a service the evaluator reported for
\* that vehicle at the time of the call; and when the store is empty or the
\* evaluator reports nothing for the selected vehicle, schedule_service appends
\* nothing and creates no calendar event.
C7_OnlyReportedServices ==
    [][ /\ \A i \in 1..Len(vehicles) :
             LET before == vehicles[i].maintenance_history
                 after  == vehicles'[i].maintenance_history
             IN  after # before =>
                   /\ after # << >>
                   /\ after[Len(after)].service \in Names(check_maintenance_due(vehicles[i]))
        /\ ( /\ output'.handler = "schedule_service"
             /\ \/ vehicles = << >>
                \/ /\ selected' \in 1..Len(vehicles)
                   /\ check_maintenance_due(vehicles[selected']) = << >> )
           => /\ vehicles' = vehicles
              /\ calendar' = calendar
        /\ calendar' # calendar =>
             /\ selected' \in 1..Len(vehicles)
             /\ check_maintenance_due(vehicles[selected']) # << >> ]_vars

\* C7's case: a vehicle that had a service scheduled while it was due, and for
\* which schedule_service then found nothing due and returned
C7_Witness ==
    /\ output = Said("schedule_service", "no_maintenance_due")
    /\ selected \in 1..Len(vehicles)
    /\ check_maintenance_due(vehicles[selected]) = << >>
    /\ vehicles[selected].maintenance_history # << >>
    /\ calendar = TotalHistory(vehicles)

\* C8: check_maintenance_due is pure: the evaluation changes no field of any
\* vehicle (mileage, last-service readings, battery voltage, history), and a
\* second call on the vehicle as the first one left it returns the same list.
C8_EvaluatorPure ==
    [][ output'.handler = "check_maintenance" /\ selected' # 0 =>
          /\ vehicles' = vehicles
          /\ due_items' = check_maintenance_due(vehicles'[selected']) ]_vars

\* C8's case: an evaluation that reported services, on a vehicle with history
C8_Witness ==
    /\ output.handler = "check_maintenance"
    /\ selected # 0
    /\ due_items # << >>
    /\ vehicles[selected].maintenance_history # << >>

\* the days today+1 .. today+7 that fall on Monday to Friday
WeekdaysOfWindow(now) == { date \in (now + 1)..(now + 7) : date % 7 \in 0..4 }

\* a list of dates is in ascending order, and holds exactly the dates of a set
AscendingListOf(dates, set) ==
    /\ \A j, k \in 1..Len(dates) : j < k => dates[j] < dates[k]
    /\ { dates[k] : k \in 1..Len(dates) } = set

\* C9 as claimed: the candidate dates are the days today+1 .. today+7 that fall
\* on Monday to Friday, ascending; the list has at most 5 entries, and on some
\* day of the week the window starts so that it has fewer than 5.
C9_DatesAsClaimed ==
    ScheduleCompleted =>
        /\ AscendingListOf(candidate_dates(today), WeekdaysOfWindow(today))
        /\ selected_date \in WeekdaysOfWindow(today)
        /\ Len(candidate_dates(today)) <= 5
        /\ \E day \in 0..6 : Len(candidate_dates(day)) < 5

\* C9 as amended: on every day of the week the candidate dates are the days
\* today+1 .. today+7 that fall on Monday to Friday, ascending, and there are
\* exactly 5 of them; the date schedule_service selects is one of them.
C9_AlwaysFiveWeekdays ==
    /\ AscendingListOf(candidate_dates(today), WeekdaysOfWindow(today))
    /\ Len(candidate_dates(today)) = 5
    /\ ScheduleCompleted => selected_date \in WeekdaysOfWindow(today)

\* C9's case: on a Friday, when the window starts with the weekend, the first
\* candidate, the Monday after, was selected and is in the history
C9_Witness ==
    /\ ScheduleCompleted
    /\ today % 7 = 4
    /\ selected_date = today + 3
    /\ candidate_dates(today)[1] = selected_date
    /\ \E k \in 1..Len(vehicles[selected].maintenance_history) :
          vehicles[selected].maintenance_history[k].scheduled_date = selected_date

\* C10: schedule_service leaves the mileage, the battery voltage and the three
\* last-service readings of every vehicle as they were, so that
\* check_maintenance_due returns after it what it returned before it: the
\* service just scheduled is still in the due list, and can be scheduled again.
C10_SchedulingChangesNoReading ==
    /\ [](ScheduleCompleted =>
            selected_service \in Names(check_maintenance_due(vehicles[selected])))
    /\ [][ output'.handler = "schedule_service" =>
             \A i \in 1..Len(vehicles) :
                /\ vehicles'[i].mileage = vehicles[i].mileage
                /\ vehicles'[i].battery_voltage = vehicles[i].battery_voltage
                /\ vehicles'[i].last_oil_change = vehicles[i].last_oil_change
                /\ vehicles'[i].last_tire_rotation = vehicles[i].last_tire_rotation
                /\ vehicles'[i].last_air_filter = vehicles[i].last_air_filter
                /\ check_maintenance_due(vehicles'[i]) = check_maintenance_due(vehicles[i]) ]_vars

\* C10's case: the same service was scheduled twice in a row for a vehicle, at
\* the same mileage
C10_Witness ==
    /\ ScheduleCompleted
    /\ LET history == vehicles[selected].maintenance_history
       IN  /\ Len(history) >= 2
           /\ history[Len(history)].service = history[Len(history) - 1].service
           /\ history[Len(history)].mileage = history[Len(history) - 1].mileage

====
